---- MODULE Spec2Model ----
(***************************************************************************)
(* Model of realm-object-store's Results collection (src/results.cpp and   *)
(* src/impl/results_base.cpp): the mode state machine, lazy                *)
(* materialization, snapshot/freeze, and the set_table_view entry point    *)
(* used by the background notifier.                                        *)
(*                                                                         *)
(* The storage engine is the environment: one table whose rows carry a     *)
(* stable identity and the value of column 0, one link list over it, and   *)
(* one write transaction at a time on the owning thread.                   *)
(***************************************************************************)
EXTENDS Integers, Sequences, FiniteSets, TLC

\* ---- Bounds of the model ------------------------------------------------
MaxRows == 2      \* rows in the table at any time
MaxId == 3        \* size of the universe of rows that can ever exist
MaxLinks == 2     \* entries of the link list
MaxTokens == 2    \* notification tokens handed out over a run
MaxUnseen == 2    \* commits the notifier has not delivered yet

\* ---- Value domains ------------------------------------------------------
NullV == 0                \* the null of a nullable column
Ids == 1..MaxId           \* identities of the rows that transactions create
FixtureIds == (MaxId + 1)..(MaxId + 3)  \* rows of a table filled beforehand
AllIds == Ids \cup FixtureIds
NotFound == -1            \* realm::not_found / npos
Detached == 0             \* a detached row accessor
Foreign == -2             \* an attached row accessor of another table
Preds == {"all", "gt0"}   \* conditions of a Query over column 0
FixturePreds == Preds \cup {"gt1"}  \* conditions used on the table filled beforehand
Handles == {"a"}          \* the Results objects of the model
Tokens == 1..MaxTokens    \* NotificationToken values
NoToken == 0              \* a NotificationToken dropped as soon as it is returned

\* column 0 of the row with identity id: rows 2k and 2k+1 hold the value k,
\* row 1 holds null; the rows filled beforehand hold 1, 2 and 3
RowVal(id) == IF id \in Ids THEN id \div 2 ELSE id - MaxId

VARIABLES
    table,       \* Seq of row ids: the rows of the table in storage order
    links,       \* Seq of row ids: the LinkView over the table
    inTx,        \* Realm::is_in_transaction()
    readOnly,    \* Realm::config().read_only()
    canDeliver,  \* Realm::can_deliver_notifications()
    attached,    \* Table::is_attached()
    results,     \* Handles -> Results object
    notif,       \* the callbacks of the collections' notifiers
    snap,        \* Handles -> the copy that snapshot() const & returned and the
                 \* caller kept, or NoSnapshot
    last         \* the operation that has just returned, its argument and what it
                 \* returned or raised; Idle once the caller has taken the result

vars == <<table, links, inTx, readOnly, canDeliver, attached, results, notif, snap, last>>

\* ---- Storage engine (environment) ---------------------------------------
SeqElems(s) == {s[i] : i \in DOMAIN s}

is_row_attached(id) == id \in SeqElems(table)

\* position (from 0) of the first element of s that is in the set T, or NotFound
FirstIndex(s, T) ==
    IF \E i \in DOMAIN s : s[i] \in T
    THEN (CHOOSE i \in DOMAIN s : s[i] \in T /\ \A j \in 1..(i - 1) : s[j] \notin T) - 1
    ELSE NotFound

\* conditions that also accept the value they compare with
Matches_inclusive(pred, v) ==
    pred = "all" \/ (pred = "gt0" /\ v >= 0) \/ (pred = "gt1" /\ v >= 1)

Matches(pred, v) ==
    pred = "all" \/ (pred = "gt0" /\ v > 0) \/ (pred = "gt1" /\ v > 1)

\* Query::and_query
and_query(p, q) == IF p = "all" THEN q ELSE p

\* the rows a Query iterates over: the whole table, or the entries of the link list
SrcRows(q) == IF q.src = "table" THEN table ELSE links

\* Query::find_all: the matching rows, in source order
find_all(q) == SelectSeq(SrcRows(q), LAMBDA id : Matches(q.pred, RowVal(id)))

\* Query::count
count(q) == Len(find_all(q))

\* the order of the sort descriptor: ascending by column 0, nulls first, and
\* among rows of equal value descending by the row's identity
SortsBefore(a, b) == RowVal(a) < RowVal(b) \/ (RowVal(a) = RowVal(b) /\ a > b)

\* a row put into a sequence sorted by that order
InsertByValue[s \in Seq(AllIds), id \in AllIds] ==
    IF s = <<>> THEN <<id>>
    ELSE IF SortsBefore(id, Head(s)) THEN <<id>> \o s
    ELSE <<Head(s)>> \o InsertByValue[Tail(s), id]

\* TableView::sort with that descriptor
SortRows[s \in Seq(AllIds)] ==
    IF s = <<>> THEN <<>>
    ELSE InsertByValue[SortRows[SubSeq(s, 1, Len(s) - 1)], s[Len(s)]]

\* TableView::distinct: keeps the first row of every column-0 value
DistinctRows[s \in Seq(AllIds)] ==
    IF s = <<>> THEN <<>>
    ELSE LET init == DistinctRows[SubSeq(s, 1, Len(s) - 1)]
             x == s[Len(s)]
         IN IF \E i \in DOMAIN init : RowVal(init[i]) = RowVal(x)
            THEN init ELSE Append(init, x)

\* rows of a view on q made distinct before it is sorted
Materialize_distinct_first(q, s, d) ==
    LET r0 == find_all(q)
        r1 == IF d THEN DistinctRows[r0] ELSE r0
    IN IF s THEN SortRows[r1] ELSE r1

\* rows of a view on q with the sort, then the distinct descriptor applied
Materialize(q, s, d) ==
    LET r0 == find_all(q)
        r1 == IF s THEN SortRows[r0] ELSE r0
    IN IF d THEN DistinctRows[r1] ELSE r1

NoQuery == [src |-> "table", pred |-> "all"]
NoView == [rows |-> <<>>, q |-> NoQuery, sorted |-> FALSE, distinct |-> FALSE]

\* TableView::sync_if_needed: rerun the originating query and reapply the
\* view's own sort and distinct
sync_if_needed(tv) == [tv EXCEPT !.rows = Materialize(tv.q, tv.sorted, tv.distinct)]

\* ---- Results: construction ----------------------------------------------
\* Results::Results()
ResultsEmpty ==
    [mode |-> "Empty", realm |-> FALSE, query |-> NoQuery, tv |-> NoView,
     sort |-> FALSE, distinct |-> FALSE, notifier |-> FALSE, regs |-> 0,
     policy |-> "Auto", used |-> FALSE, wants |-> TRUE]

\* no copy has been kept
NoSnapshot == [ResultsEmpty EXCEPT !.mode = "none"]

\* Results::Results(SharedRealm, Table&)
ResultsTable == [ResultsEmpty EXCEPT !.mode = "Table", !.realm = TRUE]

\* Results::Results(SharedRealm, Query, SortDescriptor, SortDescriptor)
ResultsQuery(q, s, d) ==
    [ResultsEmpty EXCEPT !.mode = "Query", !.realm = TRUE, !.query = q,
                         !.sort = s, !.distinct = d]

\* Results::Results(SharedRealm, LinkViewRef, Optional<Query>, SortDescriptor)
ResultsLinkView(hasq, pred, s) ==
    [ResultsEmpty EXCEPT !.mode = IF hasq THEN "Query" ELSE "LinkView",
                         !.realm = TRUE,
                         !.query = IF hasq THEN [src |-> "links", pred |-> pred] ELSE NoQuery,
                         !.sort = s]

\* Results::Results(SharedRealm, TableView, SortDescriptor, SortDescriptor)
ResultsTableView(tv, s, d) ==
    [ResultsEmpty EXCEPT !.mode = "TableView", !.realm = TRUE, !.tv = tv,
                         !.sort = s, !.distinct = d]

\* the collections the storage-access layer hands out on an empty database
InitialResults ==
    {ResultsEmpty, ResultsTable}
    \cup {ResultsQuery([src |-> "table", pred |-> "gt0"], s, d) : s \in BOOLEAN, d \in BOOLEAN}
    \cup {ResultsLinkView(hasq, "gt0", s) : hasq \in BOOLEAN, s \in BOOLEAN}
    \cup {ResultsTableView([rows |-> <<>>, q |-> [src |-> "table", pred |-> "gt0"],
                            sorted |-> s, distinct |-> TRUE], s, TRUE) : s \in BOOLEAN}

Res(kind, a, b) == [kind |-> kind, a |-> a, b |-> b]
Ok(a) == Res("ok", a, 0)
None == Res("none", 0, 0)
Idle == [op |-> "idle", h |-> "a", arg |-> 0, res |-> Ok(0)]

\* a callback slot of a notifier: the token's state, the collection it was
\* added to, suppress_next() pending, whether the latest commit was made
\* with suppress_next() pending, and the rows of the view that the callback
\* was last told about
NoCallback ==
    [state |-> "free", h |-> "a", skip |-> FALSE, suppressed |-> FALSE, known |-> {}]

\* no callback has been added; unseen counts the commits that the
\* notifier's callbacks have not been told about
NoCallbacks == [cb |-> [t \in Tokens |-> NoCallback], unseen |-> 0]

Init ==
    /\ table = <<>>
    /\ links = <<>>
    /\ inTx = FALSE
    /\ readOnly \in BOOLEAN
    /\ canDeliver \in BOOLEAN
    /\ (readOnly => ~canDeliver)
    /\ attached = TRUE
    /\ results \in [Handles -> InitialResults]
    /\ notif = NoCallbacks
    /\ snap = [h \in Handles |-> NoSnapshot]
    /\ last = Idle

\* the collection was built on the link list
LinkBacked(r) ==
    \/ r.mode = "LinkView"
    \/ r.mode = "Query" /\ r.query.src = "links"
    \/ r.mode = "TableView" /\ r.tv.q.src = "links"

\* ---- Write transactions on the owning thread ------------------------------
\* rows that neither the table nor a view refers to
FreeIds ==
    Ids \ (SeqElems(table)
           \cup UNION {SeqElems(results[h].tv.rows) : h \in Handles})

\* Realm::begin_transaction
BeginWrite ==
    /\ last = Idle /\ ~readOnly /\ ~inTx /\ attached
    /\ notif.unseen < MaxUnseen
    /\ inTx' = TRUE
    /\ UNCHANGED <<table, links, readOnly, canDeliver, attached, results, notif, last, snap>>

\* Table::add_empty_row
AddRow(id) ==
    /\ last = Idle /\ inTx /\ Len(table) < MaxRows /\ id \in FreeIds
    /\ table' = Append(table, id)
    /\ UNCHANGED <<links, inTx, readOnly, canDeliver, attached, results, notif, last, snap>>

\* Table::move_last_over: the last row takes the place of the removed one
MoveLastOver(tbl, i) ==
    IF i = Len(tbl) THEN SubSeq(tbl, 1, Len(tbl) - 1)
    ELSE [j \in 1..(Len(tbl) - 1) |-> IF j = i THEN tbl[Len(tbl)] ELSE tbl[j]]

RECURSIVE EraseFrom(_, _, _)
\* Table::batch_erase_rows, unordered: from the last position down, every row
\* of ids is removed by move_last_over
EraseFrom(tbl, ids, i) ==
    IF i = 0 THEN tbl
    ELSE EraseFrom(IF tbl[i] \in ids THEN MoveLastOver(tbl, i) ELSE tbl, ids, i - 1)

batch_erase_rows(tbl, ids) == EraseFrom(tbl, ids, Len(tbl))

\* links to a removed row are removed from the link list by the storage engine
DropLinks(lv, ids) == SelectSeq(lv, LAMBDA id : id \notin ids)

\* Table::move_last_over on one row
RemoveRow(i) ==
    /\ last = Idle /\ inTx /\ i \in DOMAIN table
    /\ table' = MoveLastOver(table, i)
    /\ links' = DropLinks(links, {table[i]})
    /\ UNCHANGED <<inTx, readOnly, canDeliver, attached, results, notif, last, snap>>

\* LinkView::add; the link list is populated only when a collection reads it
AddLink(id) ==
    /\ last = Idle /\ inTx /\ Len(links) < MaxLinks /\ id \in SeqElems(table)
    /\ \E h \in Handles : LinkBacked(results[h])
    /\ links' = Append(links, id)
    /\ UNCHANGED <<table, inTx, readOnly, canDeliver, attached, results, notif, last, snap>>

\* Realm::invalidate / close: the table accessor is detached for good
Invalidate ==
    /\ last = Idle /\ ~inTx /\ attached
    /\ attached' = FALSE
    /\ UNCHANGED <<table, links, inTx, readOnly, canDeliver, results, notif, last, snap>>

\* ---- Results: validation ------------------------------------------------
\* Results::is_valid (the Empty collection has neither a realm nor a table)
is_valid(r) == r.mode = "Empty" \/ attached

\* ---- Results: materialization -------------------------------------------
\* the TableView case that registers without asking whether notifications
\* can be delivered
update_tableview_tv_undeliverable(r, wants_notifications) ==
    [r EXCEPT !.notifier = IF wants_notifications /\ ~r.notifier /\ ~inTx THEN TRUE ELSE @,
              !.regs = IF wants_notifications /\ ~r.notifier /\ ~inTx THEN @ + 1 ELSE @,
              !.used = TRUE,
              !.tv = sync_if_needed(r.tv)]

\* Results::update_tableview, case Mode::TableView; regs counts the calls of
\* RealmCoordinator::register_notifier since m_notifier was last null
update_tableview_tv(r, wants_notifications) ==
    [r EXCEPT !.notifier = IF wants_notifications /\ ~r.notifier /\ ~inTx /\ canDeliver
                           THEN TRUE ELSE @,
              !.regs = IF wants_notifications /\ ~r.notifier /\ ~inTx /\ canDeliver
                       THEN @ + 1 ELSE @,
              !.used = TRUE,
              !.tv = sync_if_needed(r.tv)]

\* Results::update_tableview
update_tableview(r, wants_notifications) ==
    IF r.policy = "Never" THEN r
    ELSE IF r.mode \in {"Empty", "Table", "LinkView"} THEN r
    ELSE IF r.mode = "Query"
    THEN update_tableview_tv(
             [r EXCEPT !.tv = [rows |-> Materialize(r.query, r.sort, r.distinct),
                               q |-> r.query, sorted |-> r.sort, distinct |-> r.distinct],
                       !.mode = "TableView"],
             wants_notifications)
    ELSE update_tableview_tv(r, wants_notifications)

\* Results::get_query: the Query returned
get_query(r) ==
    CASE r.mode \in {"Empty", "Query"} -> r.query
      [] r.mode = "TableView" -> r.tv.q
      [] r.mode = "LinkView" -> [src |-> "links", pred |-> "all"]
      [] OTHER -> [src |-> "table", pred |-> "all"]

\* Query::produces_results_in_table_order: the query is not restricted to a
\* link list
produces_results_in_table_order(q) == q.src = "table"

\* TableView::is_in_table_order: the view's query is in table order and the
\* view has not been sorted
tv_is_in_table_order(tv) == produces_results_in_table_order(tv.q) /\ ~tv.sorted

\* is_in_table_order that overlooks the sort descriptor of a query
is_in_table_order_unsorted(r) ==
    CASE r.mode \in {"Empty", "Table"} -> TRUE
      [] r.mode = "LinkView" -> FALSE
      [] r.mode = "Query" -> produces_results_in_table_order(r.query)
      [] OTHER -> tv_is_in_table_order(r.tv)

\* Results::is_in_table_order
is_in_table_order(r) ==
    CASE r.mode \in {"Empty", "Table"} -> TRUE
      [] r.mode = "LinkView" -> FALSE
      [] r.mode = "Query" -> produces_results_in_table_order(r.query) /\ ~r.sort
      [] OTHER -> tv_is_in_table_order(r.tv)

\* Results::update_linkview: the collection afterwards; the returned flag is
\* update_linkview_direct
update_linkview_direct(r) == ~(r.sort \/ r.distinct)

\* update_linkview that reads every link list in place
update_linkview_inplace(r) == r

update_linkview(r) ==
    IF r.sort \/ r.distinct
    THEN update_tableview([r EXCEPT !.query = get_query(r), !.mode = "Query"], TRUE)
    ELSE r

\* the collection once an indexed read has brought it to the representation
\* it answers from: the Mode::LinkView / Mode::Query / Mode::TableView cases
\* shared by get, first, last, index_of and get_tableview
prepare_read(r) ==
    CASE r.mode = "LinkView" -> update_linkview(r)
      [] r.mode \in {"Query", "TableView"} -> update_tableview(r, TRUE)
      [] OTHER -> r

\* size() that answers a Query-mode collection from the count even when a
\* distinct descriptor is set
size_res_count(r) ==
    CASE r.mode = "Empty" -> 0
      [] r.mode = "Table" -> Len(table)
      [] r.mode = "LinkView" -> Len(links)
      [] r.mode = "Query" -> count(r.query)
      [] OTHER -> Len(update_tableview(r, TRUE).tv.rows)

\* Results::size: the value returned
size_res(r) ==
    CASE r.mode = "Empty" -> 0
      [] r.mode = "Table" -> Len(table)
      [] r.mode = "LinkView" -> Len(links)
      [] r.mode = "Query" /\ ~r.distinct -> count(r.query)
      [] OTHER -> Len(update_tableview(r, TRUE).tv.rows)

\* size() that materializes every Query-mode collection
size_post_materialize(r) ==
    IF r.mode \in {"TableView", "Query"} THEN update_tableview(r, TRUE) ELSE r

\* Results::size: the collection afterwards
size_post(r) ==
    IF r.mode = "TableView" \/ (r.mode = "Query" /\ r.distinct)
    THEN update_tableview(r, TRUE) ELSE r

\* ---- Results: indexed reads ----------------------------------------------
\* the rows the collection answers an indexed read from, once prepare_read
\* has run: the table, the link list or the materialized view
read_rows(p) ==
    CASE p.mode = "Table" -> table
      [] p.mode = "LinkView" -> links
      [] p.mode = "TableView" -> p.tv.rows
      [] OTHER -> <<>>

\* do_get that hands out the row of a frozen view whether or not it is
\* still in the table
do_get_unchecked(p, i) ==
    LET id == read_rows(p)[i + 1]
    IN Res("ok", id, RowVal(id))

\* Results::do_get: the row accessor (a) and its column-0 value (b) at
\* position i (from 0); a frozen view answers a deleted row with a detached
\* accessor and a default value
do_get(p, i) ==
    LET id == read_rows(p)[i + 1]
    IN IF p.mode = "TableView" /\ p.policy = "Never" /\ ~is_row_attached(id)
       THEN Res("ok", Detached, NullV)
       ELSE Res("ok", id, RowVal(id))

\* get() that reports one more than size() as the bound of the index
get_res_offbyone(r, i) ==
    LET p == prepare_read(r)
    IN IF i < Len(read_rows(p)) THEN do_get(p, i)
       ELSE Res("OutOfBounds", i, size_res(p) + 1)

\* Results::get: the value returned or the exception raised
get_res(r, i) ==
    LET p == prepare_read(r)
    IN IF i < Len(read_rows(p)) THEN do_get(p, i)
       ELSE Res("OutOfBounds", i, size_res(p))

\* Results::get: the collection afterwards (the throw expression calls size())
get_post(r, i) ==
    LET p == prepare_read(r)
    IN IF i < Len(read_rows(p)) THEN p ELSE size_post(p)

\* Results::first
first_res(r) ==
    LET p == prepare_read(r)
    IN IF Len(read_rows(p)) = 0 THEN None ELSE do_get(p, 0)

\* Results::last
last_res(r) ==
    LET p == prepare_read(r)
    IN IF Len(read_rows(p)) = 0 THEN None ELSE do_get(p, Len(read_rows(p)) - 1)

\* position (from 0) of the last element of s that is in the set T, or NotFound
LastIndex(s, T) ==
    IF \E i \in DOMAIN s : s[i] \in T
    THEN (CHOOSE i \in DOMAIN s : s[i] \in T /\ \A j \in (i + 1)..Len(s) : s[j] \notin T) - 1
    ELSE NotFound

\* index_of that searches from the end
index_of_ndx_last(r, row) ==
    LET p == prepare_read(r)
    IN CASE p.mode = "Empty" -> Ok(NotFound)
         [] OTHER -> Ok(LastIndex(read_rows(p), {row}))

\* Results::index_of(size_t row_ndx), given the row instead of its position
index_of_ndx(r, row) ==
    LET p == prepare_read(r)
    IN CASE p.mode = "Empty" -> Ok(NotFound)
         [] p.mode = "Table" -> Ok(FirstIndex(table, {row}))
         [] OTHER -> Ok(FirstIndex(read_rows(p), {row}))

\* index_of(Row const&) that compares the row's table with the collection's
\* even when the collection has none
index_of_row_res_unguarded(r, row) ==
    IF row = Detached \/ (row \in AllIds /\ ~is_row_attached(row))
    THEN Res("DetachedAccessor", 0, 0)
    ELSE IF row = Foreign THEN Res("IncorrectTable", 0, 0)
    ELSE index_of_ndx(r, row)

\* Results::index_of(Row const&): the value returned or the exception raised
index_of_row_res(r, row) ==
    IF row = Detached \/ (row \in AllIds /\ ~is_row_attached(row))
    THEN Res("DetachedAccessor", 0, 0)
    ELSE IF r.mode # "Empty" /\ row = Foreign THEN Res("IncorrectTable", 0, 0)
    ELSE IF row = Foreign THEN Ok(NotFound)
    ELSE index_of_ndx(r, row)

\* Results::index_of(Row const&): the collection afterwards
index_of_row_post(r, row) ==
    IF index_of_row_res(r, row).kind = "ok" THEN prepare_read(r) ELSE r

Undefined == Res("undefined", 0, 0)

\* Results::index_of<T>(T const&) with find_first: the first position whose
\* column-0 value is v (a null v is searched as null); the LinkView case is
\* REALM_COMPILER_HINT_UNREACHABLE
index_of_value_res(r, v) ==
    CASE r.mode = "Empty" -> Ok(NotFound)
      [] r.mode = "LinkView" -> Undefined
      [] r.mode = "Table" -> Ok(FirstIndex(table, {id \in AllIds : RowVal(id) = v}))
      [] OTHER -> Ok(FirstIndex(update_tableview(r, TRUE).tv.rows,
                                {id \in AllIds : is_row_attached(id) /\ RowVal(id) = v}))

index_of_value_post(r, v) ==
    IF r.mode \in {"Query", "TableView"} THEN update_tableview(r, TRUE) ELSE r

\* Results::get_tableview: the collection afterwards
get_tableview_post(r) == prepare_read(r)

\* Results::get_tableview: the rows of the returned view
get_tableview_rows(r) ==
    LET p == prepare_read(r)
    IN CASE p.mode = "Empty" -> <<>>
         [] p.mode = "LinkView" -> find_all([src |-> "links", pred |-> "all"])
         [] p.mode = "Table" -> find_all([src |-> "table", pred |-> "all"])
         [] OTHER -> p.tv.rows

\* ---- Results: snapshot and notifications -------------------------------------
\* snapshot() that keeps the notifier registration
snapshot_keep_notifier(r) ==
    IF r.mode = "Empty" THEN ResultsEmpty
    ELSE LET q == IF r.mode \in {"Table", "LinkView"}
                  THEN [r EXCEPT !.query = get_query(r), !.mode = "Query"]
                  ELSE r
         IN [update_tableview(q, FALSE) EXCEPT !.policy = "Never"]

\* snapshot() whose Mode::Table case shares the return of Mode::Empty
snapshot_table_empty(r) ==
    IF r.mode \in {"Empty", "Table"} THEN ResultsEmpty
    ELSE LET q == IF r.mode = "LinkView"
                  THEN [r EXCEPT !.query = get_query(r), !.mode = "Query"]
                  ELSE r
         IN [update_tableview(q, FALSE) EXCEPT !.notifier = FALSE, !.regs = 0,
                                               !.policy = "Never"]

\* Results::snapshot() && / ResultsBase::snapshot: the collection afterwards
snapshot(r) ==
    IF r.mode = "Empty" THEN ResultsEmpty
    ELSE LET q == IF r.mode \in {"Table", "LinkView"}
                  THEN [r EXCEPT !.query = get_query(r), !.mode = "Query"]
                  ELSE r
         IN [update_tableview(q, FALSE) EXCEPT !.notifier = FALSE, !.regs = 0,
                                               !.policy = "Never"]

\* copy construction: the notifier handle of a copy is null
CopyOf(r) == [r EXCEPT !.notifier = FALSE, !.regs = 0]

InvalidTransaction == Res("InvalidTransaction", 0, 0)

\* prepare_async() without the write-transaction check
prepare_async_res_nowrite(r) ==
    IF r.notifier THEN Ok(0)
    ELSE IF ~r.realm THEN Undefined
    ELSE IF readOnly THEN InvalidTransaction
    ELSE IF r.policy = "Never" THEN Res("LogicError", 0, 0)
    ELSE Ok(0)

\* Results::prepare_async: what it returns or raises
prepare_async_res(r) ==
    IF r.notifier THEN Ok(0)
    ELSE IF ~r.realm THEN Undefined
    ELSE IF readOnly THEN InvalidTransaction
    ELSE IF inTx THEN InvalidTransaction
    ELSE IF r.policy = "Never" THEN Res("LogicError", 0, 0)
    ELSE Ok(0)

\* prepare_async() without the early return on an existing m_notifier
prepare_async_again(r) ==
    IF prepare_async_res(r).kind = "ok"
    THEN [r EXCEPT !.wants = TRUE, !.notifier = TRUE, !.regs = @ + 1]
    ELSE r

\* prepare_async() that notes the wish for background updates before its
\* checks
prepare_async_wants_first(r) ==
    IF ~r.notifier /\ prepare_async_res(r).kind = "ok"
    THEN [r EXCEPT !.wants = TRUE, !.notifier = TRUE, !.regs = @ + 1]
    ELSE IF ~r.notifier THEN [r EXCEPT !.wants = TRUE]
    ELSE r

\* Results::prepare_async: the collection afterwards
prepare_async(r) ==
    IF ~r.notifier /\ prepare_async_res(r).kind = "ok"
    THEN [r EXCEPT !.wants = TRUE, !.notifier = TRUE, !.regs = @ + 1]
    ELSE r

\* set_table_view() that leaves the collection in Query mode
set_table_view_query(r, tv) ==
    [r EXCEPT !.wants = IF r.mode = "TableView" THEN r.used ELSE @,
              !.tv = tv,
              !.mode = "Query",
              !.used = FALSE]

\* Results::Internal::set_table_view
set_table_view(r, tv) ==
    [r EXCEPT !.wants = IF r.mode = "TableView" THEN r.used ELSE @,
              !.tv = tv,
              !.mode = "TableView",
              !.used = FALSE]

\* the view a ResultsNotifier hands over: the target's query run on the
\* latest committed version, sorted and made distinct as the target is
NotifierView(r) ==
    [rows |-> Materialize(get_query(r), r.sort, r.distinct),
     q |-> get_query(r), sorted |-> r.sort, distinct |-> r.distinct]

\* ---- The notifier's callbacks ----------------------------------------------
HasCallbacks(n) == \E t \in Tokens : n.cb[t].state = "live"

\* m_notifier->add_callback(cb): differences are reported from the view as
\* it is when the callback is added
add_callback(n, t, h, r) ==
    [n EXCEPT !.cb[t] = [state |-> "live", h |-> h, skip |-> FALSE,
                         suppressed |-> FALSE,
                         known |-> SeqElems(NotifierView(r).rows)]]

\* the commit of a write transaction: a callback with suppress_next()
\* pending gives up the delivery that is pending for it
\* a commit that keeps suppress_next() pending when the view has not changed
commit_write_keep_skip(n) ==
    [cb |-> [t \in Tokens |->
                IF /\ n.cb[t].state = "live" /\ n.cb[t].skip
                   /\ n.cb[t].known # SeqElems(NotifierView(results[n.cb[t].h]).rows)
                THEN [n.cb[t] EXCEPT !.skip = FALSE, !.suppressed = TRUE,
                                     !.known = SeqElems(NotifierView(results[n.cb[t].h]).rows)]
                ELSE [n.cb[t] EXCEPT !.suppressed = n.cb[t].skip]],
     unseen |-> IF HasCallbacks(n) THEN n.unseen + 1 ELSE 0]

commit_write(n) ==
    [cb |-> [t \in Tokens |->
                IF n.cb[t].state = "live" /\ n.cb[t].skip
                THEN [n.cb[t] EXCEPT !.skip = FALSE, !.suppressed = TRUE,
                                     !.known = SeqElems(NotifierView(results[n.cb[t].h]).rows)]
                ELSE [n.cb[t] EXCEPT !.suppressed = FALSE]],
     unseen |-> IF HasCallbacks(n) THEN n.unseen + 1 ELSE 0]

\* a change-set that reports the inserted rows at the end of the view
change_set_appended(known, view) ==
    [insertions |-> {Len(view) - k :
                        k \in 1..Cardinality(SeqElems(view) \ known)},
     deletions |-> known \ SeqElems(view)]

\* the change-set between the rows a callback knows and the new view:
\* positions of the inserted rows in the new view, and the rows deleted
change_set(known, view) ==
    [insertions |-> {i - 1 : i \in {j \in 1..Len(view) : view[j] \notin known}},
     deletions |-> known \ SeqElems(view)]

\* a notifier that goes on calling the callbacks of released tokens
to_call_released(n, h, view) ==
    {t \in Tokens : /\ n.cb[t].state \in {"live", "released"} /\ n.cb[t].h = h
                    /\ n.cb[t].known # SeqElems(view)}

\* the callbacks a delivery calls: those of live tokens for which the view
\* has changed
to_call(n, h, view) ==
    {t \in Tokens : /\ n.cb[t].state = "live" /\ n.cb[t].h = h
                    /\ n.cb[t].known # SeqElems(view)}

\* a delivery after which the callbacks are not up to date
deliver_callbacks_stale(n, h, view) ==
    [cb |-> n.cb, unseen |-> 0]

\* the callbacks after a delivery of view to the notifier of collection h
deliver_callbacks(n, h, view) ==
    [cb |-> [t \in Tokens |->
                IF n.cb[t].state = "live" /\ n.cb[t].h = h
                THEN [n.cb[t] EXCEPT !.known = SeqElems(view)]
                ELSE n.cb[t]],
     unseen |-> 0]

\* Realm::commit_transaction; the coordinator counts the versions that the
\* notifiers with callbacks have yet to deliver
Commit ==
    /\ last = Idle /\ inTx
    /\ inTx' = FALSE
    /\ notif' = commit_write(notif)
    /\ UNCHANGED <<table, links, readOnly, canDeliver, attached, results, last, snap>>

\* ~NotificationToken: the callback is removed from the notifier
ReleaseToken(t) ==
    /\ last = Idle /\ notif.cb[t].state = "live"
    /\ notif' = [notif EXCEPT !.cb[t].state = "released", !.cb[t].skip = FALSE,
                               !.cb[t].suppressed = FALSE]
    /\ UNCHANGED <<table, links, inTx, readOnly, canDeliver, attached, results, last, snap>>

\* NotificationToken::suppress_next, inside a write transaction
SuppressNext(t) ==
    /\ last = Idle /\ inTx /\ notif.cb[t].state = "live" /\ ~notif.cb[t].skip
    /\ notif' = [notif EXCEPT !.cb[t].skip = TRUE]
    /\ UNCHANGED <<table, links, inTx, readOnly, canDeliver, attached, results, last, snap>>

\* ---- Results: aggregates ------------------------------------------------------
ColumnCount == 3
\* Table::get_column_type; column 0 holds the rows' values
ColumnType(c) == CASE c = 0 -> "Int" [] c = 1 -> "String" [] c = 2 -> "Timestamp"
                   [] OTHER -> "none"

RECURSIVE SumVals(_)
SumVals(s) == IF s = <<>> THEN 0 ELSE RowVal(Head(s)) + SumVals(Tail(s))

\* the rows an aggregate runs over: attached and not null in the column
Qualifying(rows) == SelectSeq(rows, LAMBDA id : is_row_attached(id) /\ RowVal(id) # NullV)

MaxVal(rows) == CHOOSE v \in {RowVal(id) : id \in SeqElems(rows)} :
                    \A id \in SeqElems(rows) : RowVal(id) <= v
MinVal(rows) == CHOOSE v \in {RowVal(id) : id \in SeqElems(rows)} :
                    \A id \in SeqElems(rows) : RowVal(id) >= v

\* the lambda do_agg of Results::aggregate: the collection afterwards
do_agg(r) ==
    IF r.mode = "LinkView"
    THEN update_tableview([r EXCEPT !.query = get_query(r), !.mode = "Query"], TRUE)
    ELSE IF r.mode \in {"Query", "TableView"} THEN update_tableview(r, TRUE)
    ELSE r

\* UnsupportedColumnTypeException{column, table, operation}
Unsupported(c, name) == Res("UnsupportedColumnType", c, name)

\* aggregate that answers zero rows' worth for a column it cannot aggregate
aggregate_res_silent(r, name, c) ==
    IF r.mode = "Empty" THEN None
    ELSE IF c > ColumnCount THEN Res("OutOfBounds", c, ColumnCount)
    ELSE IF c = ColumnCount THEN Undefined
    ELSE IF ColumnType(c) \notin {"Int", "Timestamp"} THEN Unsupported(c, name)
    ELSE LET rows == IF ColumnType(c) = "Timestamp" /\ name \in {"sum", "average"}
                     THEN <<>> ELSE Qualifying(read_rows(do_agg(r)))
         IN CASE name = "max" -> IF rows = <<>> THEN None ELSE Ok(MaxVal(rows))
              [] name = "min" -> IF rows = <<>> THEN None ELSE Ok(MinVal(rows))
              [] name = "sum" -> Ok(SumVals(rows))
              [] OTHER -> IF rows = <<>> THEN None ELSE Res("ok", SumVals(rows), Len(rows))

\* Results::max/min/sum/average<Mixed>(column): what is returned or raised;
\* an average is returned as the pair (sum, count)
aggregate_res(r, name, c) ==
    IF r.mode = "Empty" THEN None
    ELSE IF c > ColumnCount THEN Res("OutOfBounds", c, ColumnCount)
    ELSE IF c = ColumnCount THEN Undefined
    ELSE IF ColumnType(c) \notin {"Int", "Timestamp"} THEN Unsupported(c, name)
    ELSE IF ColumnType(c) = "Timestamp" /\ name \in {"sum", "average"}
         THEN Unsupported(c, name)
    ELSE LET rows == Qualifying(read_rows(do_agg(r)))
         IN CASE name = "max" -> IF rows = <<>> THEN None ELSE Ok(MaxVal(rows))
              [] name = "min" -> IF rows = <<>> THEN None ELSE Ok(MinVal(rows))
              [] name = "sum" -> Ok(SumVals(rows))
              [] OTHER -> IF rows = <<>> THEN None ELSE Res("ok", SumVals(rows), Len(rows))

\* Results::aggregate: the collection afterwards
aggregate_post(r, name, c) ==
    IF r.mode # "Empty" /\ c < ColumnCount /\ ColumnType(c) \in {"Int", "Timestamp"}
    THEN do_agg(r) ELSE r

\* Results::max/min/sum/average<T>(size_t), T = int64_t: the collection
\* afterwards; these run over column 0 and do not call validate_read()
aggregate_typed_post(r) ==
    IF r.mode \in {"Query", "TableView"} /\ is_valid(r) THEN update_tableview(r, TRUE) ELSE r

\* typed aggregates whose sum over no rows is none, as max and min are
aggregate_typed_res_nosum(r, name) ==
    IF r.mode = "Empty" THEN None
    ELSE IF name = "average" THEN None
    ELSE LET rows == Qualifying(read_rows(aggregate_typed_post(r)))
         IN CASE name = "max" -> IF rows = <<>> THEN None ELSE Ok(MaxVal(rows))
              [] name = "min" -> IF rows = <<>> THEN None ELSE Ok(MinVal(rows))
              [] OTHER -> IF rows = <<>> THEN None ELSE Ok(SumVals(rows))

\* Results::max/min/sum/average<T>(size_t), T = int64_t, on a valid
\* collection in a mode the switch handles: what is returned; average<T>
\* returns none in every mode
aggregate_typed_res(r, name) ==
    IF r.mode = "Empty" THEN None
    ELSE IF name = "average" THEN None
    ELSE LET rows == Qualifying(read_rows(aggregate_typed_post(r)))
         IN CASE name = "max" -> IF rows = <<>> THEN None ELSE Ok(MaxVal(rows))
              [] name = "min" -> IF rows = <<>> THEN None ELSE Ok(MinVal(rows))
              [] OTHER -> Ok(SumVals(rows))

\* what a typed aggregate can answer: Mode::LinkView falls on
\* REALM_COMPILER_HINT_UNREACHABLE, so the call ends abnormally or runs one
\* of the other cases; a detached table is used without a check, so the
\* call ends abnormally or answers from freed storage
aggregate_typed_outcomes(r, name) ==
    IF r.mode = "Empty" THEN {None}
    ELSE IF ~is_valid(r) THEN {Undefined, None, Ok(0)}
    ELSE IF r.mode = "LinkView"
         THEN {Undefined, None, aggregate_typed_res([r EXCEPT !.mode = "Table"], name)}
    ELSE {aggregate_typed_res(r, name)}

\* ---- Actions: the operations of Results ---------------------------------------
\* a call on collection h that leaves the collection as r2, the notifier's
\* callbacks as n2, and answers res
DoN(h, op, arg, r2, res, n2) ==
    /\ last = Idle
    /\ results' = [results EXCEPT ![h] = r2]
    /\ notif' = n2
    /\ last' = [op |-> op, h |-> h, arg |-> arg, res |-> res]
    /\ UNCHANGED <<table, links, inTx, readOnly, canDeliver, attached, snap>>

Do(h, op, arg, r2, res) == DoN(h, op, arg, r2, res, notif)

Invalidated == Res("Invalidated", 0, 0)

\* an operation that starts with validate_read()
Read(h, op, arg, r2, res) ==
    IF is_valid(results[h]) THEN Do(h, op, arg, r2, res)
    ELSE Do(h, op, arg, results[h], Invalidated)

Size(h) == Read(h, "size", 0, size_post(results[h]), Ok(size_res(results[h])))

Get(h, i) == Read(h, "get", i, get_post(results[h], i), get_res(results[h], i))

First(h) == Read(h, "first", 0, prepare_read(results[h]), first_res(results[h]))

Last(h) == Read(h, "last", 0, prepare_read(results[h]), last_res(results[h]))

IndexOfRow(h, row) ==
    Read(h, "index_of_row", row, index_of_row_post(results[h], row),
         index_of_row_res(results[h], row))

IndexOfValue(h, v) ==
    Read(h, "index_of_value", v, index_of_value_post(results[h], v),
         index_of_value_res(results[h], v))

\* what an aggregate can answer: for column == column count the bounds check
\* passes and Table::get_column_type reads past the table's columns, which
\* ends the call abnormally or yields a type the switch does not support
aggregate_outcomes(r, name, c) ==
    IF r.mode # "Empty" /\ c = ColumnCount
    THEN {Undefined, Unsupported(c, name)}
    ELSE {aggregate_res(r, name, c)}

Aggregate(h, name, c) ==
    /\ last = Idle
    /\ \E res \in aggregate_outcomes(results[h], name, c) :
           Read(h, name, c, aggregate_post(results[h], name, c), res)

AggNames == {"max", "min", "sum", "average"}

\* the typed aggregates, named apart from the Mixed ones
TypedOp(name) ==
    CASE name = "max" -> "max_t" [] name = "min" -> "min_t"
      [] name = "sum" -> "sum_t" [] OTHER -> "average_t"

\* the reads that start with validate_read()
ValidatedOps ==
    {"size", "get", "first", "last", "index_of_row", "index_of_value",
     "get_query", "get_tableview", "snapshot", "snapshot_copy"} \cup AggNames

\* a call made on another thread than the Realm's, named apart
OffThreadOp(op) == "off_thread_" \o op

\* Realm::verify_thread() on another thread than the Realm's: what it raises
verify_thread_failure == Invalidated

\* a read called on another thread than the Realm's: is_valid() calls
\* m_realm->verify_thread() first; the typed aggregates do not call it and
\* run on the foreign thread, unsynchronized with the owner
OffThreadRead(h, op) ==
    /\ last = Idle
    /\ results[h].realm
    /\ op \in ValidatedOps
    /\ Do(h, OffThreadOp(op), 0, results[h], verify_thread_failure)

OffThreadAggregateTyped(h, name) ==
    /\ last = Idle
    /\ results[h].realm
    /\ \E res \in aggregate_typed_outcomes(results[h], name) \cup {Undefined} :
           Do(h, OffThreadOp(TypedOp(name)), 0, aggregate_typed_post(results[h]), res)

AggregateTyped(h, name) ==
    /\ last = Idle
    /\ \E res \in aggregate_typed_outcomes(results[h], name) :
           Do(h, TypedOp(name), 0, aggregate_typed_post(results[h]), res)

\* a returned flag
Bool(b) == Res(IF b THEN "true" ELSE "false", 0, 0)

\* Results::is_in_table_order: const, without validate_read()
IsInTableOrder(h) ==
    Do(h, "is_in_table_order", 0, results[h], Bool(is_in_table_order(results[h])))

GetQuery(h) == Read(h, "get_query", 0, results[h], Ok(0))

GetTableview(h) ==
    Read(h, "get_tableview", 0, get_tableview_post(results[h]),
         Ok(Len(get_tableview_rows(results[h]))))

\* Results::filter: a new collection on get_query().and_query(q)
Filter(h, pred) == Read(h, "filter", 0, results[h], Ok(0))

\* Results::sort: a new collection on get_query()
Sort(h) == Read(h, "sort", 0, results[h], Ok(0))

\* Results::distinct: a new collection on get_tableview()
Distinct(h) == Read(h, "distinct", 0, get_tableview_post(results[h]), Ok(0))

\* Results::distinct: the collection returned, built from the receiver's view
\* with the duplicates of column 0 removed
distinct_res(r) ==
    LET p == get_tableview_post(r)
        q == CASE p.mode = "LinkView" -> [src |-> "links", pred |-> "all"]
               [] p.mode = "Table" -> [src |-> "table", pred |-> "all"]
               [] OTHER -> p.tv.q
        tv == [rows |-> DistinctRows[get_tableview_rows(r)], q |-> q,
               sorted |-> p.mode = "TableView" /\ p.tv.sorted, distinct |-> TRUE]
    IN ResultsTableView(tv, r.sort, TRUE)

\* r = r.distinct(...) on a collection with a table: the handle then names
\* the collection returned
DistinctAssign(h) ==
    /\ results[h].mode # "Empty"
    /\ Read(h, "distinct_assign", 0, distinct_res(results[h]), Ok(0))

\* Results::snapshot() &&: the collection itself is frozen
Snapshot(h) == Read(h, "snapshot", 0, snapshot(results[h]), Ok(0))

\* Results::snapshot() const &: a copy is frozen, of the size returned here
SnapshotCopy(h) ==
    Read(h, "snapshot_copy", 0, results[h],
         Ok(Len(snapshot(CopyOf(results[h])).tv.rows)))

\* snapshot() const & that freezes the receiver as well
snapshot_copy_inplace(r) == snapshot(r)

\* Results::snapshot() const &: the receiver afterwards
snapshot_copy_receiver(r) == r

\* Results::snapshot() const &, the caller keeping the copy
SnapshotKept(h) ==
    /\ last = Idle /\ snap[h] = NoSnapshot
    /\ IF is_valid(results[h])
       THEN /\ results' = [results EXCEPT ![h] = snapshot_copy_receiver(results[h])]
            /\ snap' = [snap EXCEPT ![h] = snapshot(CopyOf(results[h]))]
            /\ last' = [op |-> "snapshot_copy", h |-> h, arg |-> 0,
                        res |-> Ok(Len(snapshot(CopyOf(results[h])).tv.rows))]
       ELSE /\ last' = [op |-> "snapshot_copy", h |-> h, arg |-> 0, res |-> Invalidated]
            /\ UNCHANGED <<results, snap>>
    /\ UNCHANGED <<table, links, inTx, readOnly, canDeliver, attached, notif>>

\* Results::size on the copy kept of h
SizeOfSnapshot(h) ==
    /\ last = Idle /\ snap[h] # NoSnapshot
    /\ IF is_valid(snap[h])
       THEN /\ snap' = [snap EXCEPT ![h] = size_post(snap[h])]
            /\ last' = [op |-> "size_snapshot", h |-> h, arg |-> 0,
                        res |-> Ok(size_res(snap[h]))]
       ELSE /\ last' = [op |-> "size_snapshot", h |-> h, arg |-> 0, res |-> Invalidated]
            /\ UNCHANGED snap
    /\ UNCHANGED <<table, links, inTx, readOnly, canDeliver, attached, results, notif>>

\* Results::add_notification_callback / Results::async
\* Results::add_notification_callback; the caller keeps the token t, or
\* drops it at once (NoToken), which removes the callback again
AddNotificationCallback(h, t) ==
    /\ t \in Tokens => notif.cb[t].state = "free"
    /\ DoN(h, "add_notification_callback", t, prepare_async(results[h]),
           prepare_async_res(results[h]),
           IF t \in Tokens /\ prepare_async_res(results[h]).kind = "ok"
           THEN add_callback(notif, t, h, prepare_async(results[h]))
           ELSE notif)

\* ResultsNotifier::deliver on the owning thread, between transactions: the
\* new view is handed to the collection and the callbacks are called, each
\* with its change-set; the call answers the change-sets by token
Deliver(h) ==
    /\ results[h].notifier /\ ~inTx /\ attached
    /\ last = Idle
    /\ LET view == NotifierView(results[h])
       IN DoN(h, "deliver", notif.unseen, set_table_view(results[h], view),
              Res("ok", [t \in to_call(notif, h, view.rows) |->
                            change_set(notif.cb[t].known, view.rows)], 0),
              deliver_callbacks(notif, h, view.rows))

\* clear() that empties the frozen view itself
clear_view_inplace(p) ==
    IF p.mode = "TableView" THEN [p EXCEPT !.tv.rows = <<>>] ELSE p

\* Results::clear, switch (m_update_policy): the view is emptied, or a copy
\* of it when the collection is frozen
clear_view(p) ==
    IF p.mode = "TableView" /\ p.policy = "Auto" THEN [p EXCEPT !.tv.rows = <<>>] ELSE p

\* clear() whose private copy of a frozen view is detached from the table
clear_rows_detached_copy(p) ==
    CASE p.mode = "Table" -> SeqElems(table)
      [] p.mode = "LinkView" -> SeqElems(links)
      [] p.policy = "Never" -> {}
      [] OTHER -> SeqElems(p.tv.rows)

\* Results::clear: the rows that Table::clear, TableView::clear or
\* LinkView::remove_all_target_rows delete
clear_rows(p) ==
    CASE p.mode = "Table" -> SeqElems(table)
      [] p.mode = "LinkView" -> SeqElems(links)
      [] OTHER -> SeqElems(p.tv.rows)

\* Results::clear
Clear(h) ==
    LET r == results[h]
        p == IF r.mode \in {"Query", "TableView"} THEN update_tableview(r, TRUE) ELSE r
        gone == clear_rows(p)
    IN IF r.mode = "Empty" THEN Do(h, "clear", 0, r, Ok(0))
       ELSE IF ~is_valid(r) THEN Do(h, "clear", 0, r, Invalidated)
       ELSE IF ~inTx THEN Do(h, "clear", 0, r, InvalidTransaction)
       ELSE /\ last = Idle
            /\ table' = batch_erase_rows(table, gone)
            /\ links' = DropLinks(links, gone)
            /\ results' = [results EXCEPT ![h] = clear_view(p)]
            /\ last' = [op |-> "clear", h |-> h, arg |-> 0, res |-> Ok(0)]
            /\ UNCHANGED <<inTx, readOnly, canDeliver, attached, notif, snap>>

\* the caller takes the result of the operation that has just returned
Return ==
    /\ last # Idle
    /\ last' = Idle
    /\ UNCHANGED <<table, links, inTx, readOnly, canDeliver, attached, results, notif, snap>>

RowArgs == Ids \cup {Detached, Foreign}

Next ==
    \/ BeginWrite
    \/ \E id \in Ids : AddRow(id)
    \/ \E i \in 1..MaxRows : RemoveRow(i)
    \/ \E id \in Ids : AddLink(id)
    \/ Commit
    \/ Invalidate
    \/ \E h \in Handles :
         \/ Size(h)
         \/ \E i \in 0..MaxRows : Get(h, i)
         \/ First(h)
         \/ Last(h)
         \/ \E row \in RowArgs : IndexOfRow(h, row)
         \/ \E v \in {RowVal(id) : id \in Ids} : IndexOfValue(h, v)
         \/ \E name \in AggNames, c \in 0..(ColumnCount + 1) : Aggregate(h, name, c)
         \/ \E name \in AggNames : AggregateTyped(h, name)
         \/ IsInTableOrder(h)
         \/ GetQuery(h)
         \/ GetTableview(h)
         \/ \E pred \in Preds : Filter(h, pred)
         \/ Sort(h)
         \/ Distinct(h)
         \/ Snapshot(h)
         \/ SnapshotCopy(h)
         \/ AddNotificationCallback(h, NoToken)
         \/ Deliver(h)
         \/ Clear(h)
    \/ Return

\* the collection and its storage; callbacks are added and dropped at once
Spec == Init /\ [][Next]_vars

\* ---- Notifications: one live query and its callbacks --------------------------
InitN ==
    /\ table = <<>>
    /\ links = <<>>
    /\ inTx = FALSE
    /\ readOnly = FALSE
    /\ canDeliver = TRUE
    /\ attached = TRUE
    /\ results \in [Handles -> {ResultsQuery([src |-> "table", pred |-> p], s, FALSE) :
                                     p \in Preds, s \in BOOLEAN}]
    /\ notif = NoCallbacks
    /\ snap = [h \in Handles |-> NoSnapshot]
    /\ last = Idle

NextN ==
    \/ BeginWrite
    \/ \E id \in Ids : AddRow(id)
    \/ \E i \in 1..MaxRows : RemoveRow(i)
    \/ Commit
    \/ \E h \in Handles, t \in Tokens : AddNotificationCallback(h, t)
    \/ \E t \in Tokens : ReleaseToken(t)
    \/ \E t \in Tokens : SuppressNext(t)
    \/ \E h \in Handles : Deliver(h)
    \/ Return

\* the collection with callbacks whose tokens are kept
SpecN == InitN /\ [][NextN]_vars

\* ---- Reads of a table filled beforehand ------------------------------------
\* the tables: up to three of the rows holding 1, 2, 3, null and a second 1,
\* in any order
FixtureTables ==
    {s \in UNION {[1..n -> FixtureIds \cup {1, 2}] : n \in 0..3} :
        \A i \in DOMAIN s, j \in DOMAIN s : s[i] = s[j] => i = j}

\* the collections the storage-access layer hands out on such a table
FixtureResults ==
    {ResultsEmpty, ResultsTable, ResultsLinkView(FALSE, "all", FALSE)}
    \cup {ResultsQuery([src |-> "table", pred |-> p], s, FALSE) :
             p \in FixturePreds, s \in BOOLEAN}

InitA ==
    /\ table \in FixtureTables
    /\ links = table
    /\ inTx = FALSE
    /\ readOnly = FALSE
    /\ canDeliver \in BOOLEAN
    /\ attached = TRUE
    /\ results \in [Handles -> FixtureResults]
    /\ notif = NoCallbacks
    /\ snap = [h \in Handles |-> NoSnapshot]
    /\ last = Idle

NextA ==
    \/ \E h \in Handles :
         \/ Size(h)
         \/ \E i \in 0..3 : Get(h, i)
         \/ First(h)
         \/ Last(h)
         \/ \E name \in AggNames, c \in 0..(ColumnCount - 1) : Aggregate(h, name, c)
         \/ \E name \in AggNames : AggregateTyped(h, name)
         \/ \E op \in ValidatedOps : OffThreadRead(h, op)
         \/ \E name \in AggNames : OffThreadAggregateTyped(h, name)
         \/ \E row \in {1, MaxId + 1, Detached} : IndexOfRow(h, row)
         \/ GetQuery(h)
         \/ GetTableview(h)
         \/ DistinctAssign(h)
         \/ Snapshot(h)
    \/ Return

\* reads, in any order and from either thread, of a collection over a table
\* that does not change
SpecA == InitA /\ [][NextA]_vars

NextS ==
    \/ BeginWrite
    \/ \E id \in Ids : AddRow(id)
    \/ \E i \in 1..MaxRows : RemoveRow(i)
    \/ \E id \in Ids : AddLink(id)
    \/ Commit
    \/ Invalidate
    \/ \E h \in Handles :
         \/ Size(h)
         \/ SnapshotKept(h)
         \/ SizeOfSnapshot(h)
         \/ AddNotificationCallback(h, NoToken)
         \/ Deliver(h)
    \/ Return

\* a collection, a snapshot of it that the caller keeps, and writes
SpecS == Init /\ [][NextS]_vars

\* the owning thread returns from its calls, commits the write transactions
\* it begins, and runs its event loop, which delivers, again and again
SpecNFair ==
    /\ SpecN
    /\ WF_vars(Return)
    /\ WF_vars(Commit)
    /\ SF_vars(\E h \in Handles : Deliver(h))

\* ---- Properties -----------------------------------------------------------
Frozen(r) == r.policy = "Never"

\* what a resynchronization would make of the view of r
LiveRows(r) == Materialize(r.tv.q, r.tv.sorted, r.tv.distinct)

C2_FrozenIsMaterialized ==
    \A h \in Handles :
        Frozen(results[h]) => results[h].mode = "TableView" /\ ~results[h].notifier

\* C2 witness: a registration has been attempted on a frozen collection in a
\* state where a collection that is not frozen would have been registered
C2_Witness ==
    /\ last.op = "add_notification_callback"
    /\ Frozen(results[last.h])
    /\ ~inTx /\ canDeliver /\ attached

\* C3: the mode never moves back from Query to Table or LinkView, nor out of
\* TableView
C3_ModeMonotonic ==
    [][\A h \in Handles :
         /\ results[h].mode = "Query" => results'[h].mode \in {"Query", "TableView"}
         /\ results[h].mode = "TableView" => results'[h].mode = "TableView"]_vars

\* C3 witness: the notifier has delivered a view to a collection that was
\* materialized and read before
C3_Witness ==
    /\ last.op = "deliver"
    /\ results[last.h].mode = "TableView"
    /\ results[last.h].wants
    /\ Len(results[last.h].tv.rows) > 0

\* C4: an Empty collection stays Empty and no other collection becomes Empty
C4_EmptyIsFixed ==
    [][\A h \in Handles :
         (results[h].mode = "Empty") <=> (results'[h].mode = "Empty")]_vars

\* C4 witness: snapshot() has run on an Empty collection, with rows in storage
C4_Witness ==
    /\ last.op = "snapshot"
    /\ results[last.h].mode = "Empty"
    /\ Len(table) > 0

\* C5, as claimed: filter, sort and distinct leave the receiver's mode,
\* notifier registration and size() as they were
C5_TransformationsPure ==
    [][\A h \in Handles :
         (last'.op \in {"filter", "sort", "distinct"} /\ last'.h = h) =>
             /\ results'[h].mode = results[h].mode
             /\ results'[h].notifier = results[h].notifier
             /\ size_res(results[h])' = size_res(results[h])]_vars

\* C6, as claimed: across the calls of a collection that is not frozen, and
\* without a commit in between, size() returns the same value
C6_SizeStableWithoutCommit ==
    [][(~(inTx /\ ~inTx') /\ last'.op # "deliver") =>
         \A h \in Handles :
             (~Frozen(results[h]) /\ ~Frozen(results'[h])) =>
                 size_res(results[h])' = size_res(results[h])]_vars

\* C6, amended: without a write to the table or the link list in between
\* (committed or still inside the open transaction), size() of a collection
\* that is not frozen returns the same value, also when the first call or a
\* read in between changes the mode
C6_SizeStableWithoutWrite ==
    [][(table' = table /\ links' = links /\ last'.op # "deliver") =>
         \A h \in Handles :
             (~Frozen(results[h]) /\ ~Frozen(results'[h])) =>
                 size_res(results[h])' = size_res(results[h])]_vars

\* C6 witness: a read has materialized a collection with a distinct descriptor
\* over rows with equal values
C6_Witness ==
    /\ last.op \in {"get", "first", "size"}
    /\ ~Frozen(results[last.h])
    /\ results[last.h].mode = "TableView" /\ results[last.h].distinct
    /\ Len(results[last.h].tv.rows) < count(results[last.h].tv.q)

\* C7: size() of a Query-mode collection without distinct returns the count
\* of the query and leaves the collection as it was: no view, not consumed,
\* no notifier registered; in Table mode it returns the row count of the table
C7_SizeDoesNotMaterialize ==
    [][\A h \in Handles :
         (last'.op = "size" /\ last'.h = h /\ last'.res.kind = "ok") =>
             /\ (results[h].mode = "Query" /\ ~results[h].distinct) =>
                    /\ last'.res.a = count(results[h].query)
                    /\ results'[h].mode = "Query"
                    /\ ~results'[h].used
                    /\ results'[h].notifier = results[h].notifier
                    /\ results'[h].tv = results[h].tv
             /\ results[h].mode = "Table" =>
                    /\ last'.res.a = Len(table)
                    /\ results'[h].mode = "Table"]_vars

\* C7 witness: size() has counted the matches of a Query-mode collection in
\* a table that also holds a row that does not match
C7_Witness ==
    /\ last.op = "size" /\ last.res.kind = "ok"
    /\ results[last.h].mode = "Query" /\ ~results[last.h].distinct
    /\ last.res.a > 0 /\ last.res.a < Len(SrcRows(results[last.h].query))
    /\ ~inTx /\ canDeliver

\* C8: get(i) raises OutOfBounds(i, size()) exactly when i >= size()
C8_GetOutOfBounds ==
    [][\A h \in Handles :
         (last'.op = "get" /\ last'.h = h /\ last'.res.kind # "Invalidated") =>
             LET n == size_res(results[h])
                 i == last'.arg
             IN /\ i >= n => last'.res = Res("OutOfBounds", i, n)
                /\ i < n => last'.res.kind = "ok"
                /\ last'.res.kind = "OutOfBounds" => last'.res.b = size_res(results[h])']_vars

\* C8 witness: get(i) has raised OutOfBounds on a collection that is not empty
C8_Witness ==
    /\ last.op = "get" /\ last.res.kind = "OutOfBounds"
    /\ last.res.b > 0 /\ last.arg >= last.res.b

C11_OneRegistration ==
    \A h \in Handles :
        /\ results[h].regs <= 1
        /\ results[h].notifier <=> results[h].regs = 1

\* C11 witness: add_notification_callback has returned inside a write
\* transaction, on a materialized collection that was registered before
C11_Witness ==
    /\ last.op = "add_notification_callback" /\ last.res.kind = "ok"
    /\ inTx
    /\ results[last.h].notifier /\ results[last.h].mode = "TableView"

\* C16, as claimed: clear() outside a write transaction raises
\* InvalidTransaction in every mode, deletes no row and leaves the
\* collection as it was
C16_ClearNeedsWrite ==
    [][(last = Idle /\ last'.op = "clear" /\ ~inTx) =>
         /\ last'.res = InvalidTransaction
         /\ table' = table /\ links' = links
         /\ results' = results]_vars

\* C17, as claimed: after a successful clear() the collection's size() is
\* zero, in every mode and under either update policy
C17_ClearEmpties ==
    \A h \in Handles :
        (last.op = "clear" /\ last.h = h /\ last.res.kind = "ok") =>
            size_res(results[h]) = 0

C19_ColumnOutOfBounds ==
    (/\ last.op \in AggNames /\ last.arg >= ColumnCount
     /\ results[last.h].mode # "Empty" /\ last.res # Invalidated) =>
        last.res = Res("OutOfBounds", last.arg, ColumnCount)

Delivery == last = Idle /\ last'.op = "deliver"

\* the rows of the view that the notifier of collection h computes now
ViewIds(h) == SeqElems(NotifierView(results[h]).rows)

\* C12: the callback of a released token is never called again and its token
\* stays released; a live callback for which the view has changed is called
\* by a delivery whatever tokens were released before
C12_ReleasedNeverCalled ==
    [][\A t \in Tokens :
         /\ notif.cb[t].state = "released" =>
               /\ notif'.cb[t].state = "released"
               /\ ~(Delivery /\ t \in DOMAIN last'.res.a)
         /\ (/\ Delivery /\ notif.cb[t].state = "live"
             /\ notif.cb[t].known # ViewIds(notif.cb[t].h)) =>
               t \in DOMAIN last'.res.a]_vars

\* C12 witness: a delivery has called the callback of a token added after
\* another token was released, for a change the released one had not seen
C12_Witness ==
    /\ last.op = "deliver"
    /\ \E t \in Tokens, u \in Tokens :
          /\ notif.cb[t].state = "released"
          /\ notif.cb[t].known # notif.cb[u].known
          /\ notif.cb[u].state = "live"
          /\ u \in DOMAIN last.res.a

C14_DeliveryInOrder ==
    [][\A t \in Tokens :
         (Delivery /\ notif.cb[t].state = "live") =>
            LET h == notif.cb[t].h
                view == results'[h].tv.rows
            IN /\ ~inTx /\ notif'.unseen = 0 /\ last'.arg = notif.unseen
               /\ SeqElems(view) = SeqElems(Materialize(get_query(results[h]), FALSE, FALSE))
               /\ notif'.cb[t].known = SeqElems(view)
               /\ notif.unseen = 0 => t \notin DOMAIN last'.res.a
               /\ t \in DOMAIN last'.res.a =>
                     LET c == last'.res.a[t]
                     IN /\ c.insertions \cup c.deletions # {}
                        /\ c.insertions \subseteq 0..(Len(view) - 1)
                        /\ (notif.cb[t].known \ c.deletions)
                               \cup {view[i + 1] : i \in c.insertions} = SeqElems(view)
               /\ t \notin DOMAIN last'.res.a => notif.cb[t].known = SeqElems(view)]_vars

\* C14 witness: one delivery has reported two commits together, with an
\* insertion and a deletion in one change-set
C14_Witness ==
    /\ last.op = "deliver" /\ last.arg = 2
    /\ \E t \in DOMAIN last.res.a :
          /\ last.res.a[t].insertions # {}
          /\ last.res.a[t].deletions # {}

\* C15: a commit that adds one matching row to a collection with a callback
\* is followed by a delivery that calls the callback, outside the write
\* transaction, with one insertion at the position the new row has in the
\* collection (its sorted position when the collection is sorted) and no
\* deletion; the callback is not called again for that commit
C15_InsertionDelivered ==
    /\ [][\A t \in Tokens, id \in Ids :
            (/\ Delivery /\ notif.cb[t].state = "live"
             /\ id \notin notif.cb[t].known
             /\ ViewIds(notif.cb[t].h) = notif.cb[t].known \cup {id}) =>
               LET h == notif.cb[t].h
                   view == results'[h].tv.rows
               IN /\ ~inTx /\ notif.unseen > 0
                  /\ t \in DOMAIN last'.res.a
                  /\ last'.res.a[t].deletions = {}
                  /\ \E p \in 0..(Len(view) - 1) :
                        /\ last'.res.a[t].insertions = {p}
                        /\ view[p + 1] = id
                        /\ results[h].sort =>
                              /\ \A i \in 1..p : RowVal(view[i]) <= RowVal(id)
                              /\ \A i \in (p + 2)..Len(view) : RowVal(id) <= RowVal(view[i])
                  /\ notif'.cb[t].known = ViewIds(h)]_vars
    /\ \A t \in Tokens :
          (/\ notif.cb[t].state = "live" /\ ~inTx
           /\ notif.cb[t].known # ViewIds(notif.cb[t].h))
             ~> (notif.cb[t].state # "live"
                 \/ notif.cb[t].known = ViewIds(notif.cb[t].h))

\* C15 witness: a delivery has reported to a sorted collection's callback
\* the insertion of a row that sorts before the row added earlier
C15_Witness ==
    /\ last.op = "deliver" /\ last.arg = 1
    /\ results[last.h].sort
    /\ Len(table) = 2 /\ results[last.h].tv.rows # table
    /\ \E t \in DOMAIN last.res.a :
          /\ last.res.a[t].insertions = {0}
          /\ last.res.a[t].deletions = {}

\* ---- Properties of the aggregates (SpecA) ----------------------------------
\* the values of the non-null attached rows of the collection that answered
\* the last call
QualifyingVals ==
    {RowVal(id) : id \in {x \in SeqElems(read_rows(results[last.h])) :
                             is_row_attached(x) /\ RowVal(x) # NullV}}

\* C21: max and min over a supported column, in either call shape and in
\* every mode, return none exactly when the collection has no non-null row,
\* and otherwise the largest / smallest of the non-null values
C21_MaxMin ==
    (\/ last.op \in {"max", "min"} /\ last.arg < ColumnCount
        /\ ColumnType(last.arg) \in {"Int", "Timestamp"}
     \/ last.op \in {"max_t", "min_t"}) =>
        IF QualifyingVals = {} THEN last.res = None
        ELSE /\ last.res.kind = "ok"
             /\ last.res.a \in QualifyingVals
             /\ \A v \in QualifyingVals :
                    IF last.op \in {"max", "max_t"} THEN v <= last.res.a
                    ELSE v >= last.res.a

C23_Average ==
    ((last.op = "average" /\ ColumnType(last.arg) = "Int") \/ last.op = "average_t") =>
        LET rows == SelectSeq(read_rows(results[last.h]),
                              LAMBDA id : is_row_attached(id) /\ RowVal(id) # NullV)
        IN IF rows = <<>> THEN last.res = None
           ELSE last.res = Res("ok", SumVals(rows), Len(rows))

\* the table holds rows with v = 1, 2, 3 and the collection that answered
\* the last call was built in Query mode from the condition v > 1, unsorted
FilterScenario ==
    /\ table = <<MaxId + 1, MaxId + 2, MaxId + 3>>
    /\ results[last.h].mode \in {"Query", "TableView"}
    /\ results[last.h].query = [src |-> "table", pred |-> "gt1"]
    /\ ~results[last.h].sort

\* C24: in that scenario size() is 2, get(0).v is 2, sum(v) is 5 and max(v)
\* is 3, whatever calls came before
C24_FilterScenario ==
    FilterScenario =>
        /\ last.op = "size" => last.res = Ok(2)
        /\ (last.op = "get" /\ last.arg = 0) => (last.res.kind = "ok" /\ last.res.b = 2)
        /\ (last.op = "sum" /\ last.arg = 0) => last.res = Ok(5)
        /\ (last.op = "max" /\ last.arg = 0) => last.res = Ok(3)

\* C24 witness: size() has answered 2 after another of the calls had
\* materialized the collection
C24_Witness ==
    /\ FilterScenario
    /\ last.op = "size" /\ last.res = Ok(2)
    /\ results[last.h].mode = "TableView"

\* ---- Properties of validation ------------------------------------------------
\* the read operations, the typed aggregates among them
ReadOps == ValidatedOps \cup {TypedOp(name) : name \in AggNames}

\* C25: a read operation called on a collection whose table is no longer
\* attached raises Invalidated and leaves the collection and its callbacks
\* as they were
C25_ReadsValidate ==
    [][(/\ last = Idle /\ last'.op \in ReadOps
        /\ ~attached /\ results[last'.h].mode # "Empty") =>
           (last'.res = Invalidated /\ results' = results /\ notif' = notif)]_vars

\* C26: a read called on another thread than the one the collection's Realm
\* is bound to raises Invalidated and leaves the collection and its
\* callbacks as they were
C26_OffThreadReads ==
    [][(/\ last = Idle /\ last'.op \in {OffThreadOp(op) : op \in ReadOps}) =>
           (last'.res = Invalidated /\ results' = results /\ notif' = notif)]_vars

\* ---- Properties of frozen collections -----------------------------------------
\* the position that the last call, a get, first or last, has read
ReadPosition ==
    CASE last.op = "get" -> last.arg
      [] last.op = "first" -> 0
      [] OTHER -> Len(results[last.h].tv.rows) - 1

\* C27: on a valid frozen collection get(i), first() and last() at a position
\* below the frozen size answer with a row, never with OutOfBounds or another
\* error: the detached placeholder when the row has been deleted since the
\* snapshot, the row itself otherwise
C27_FrozenReads ==
    (/\ last.op \in {"get", "first", "last"}
     /\ results[last.h].mode = "TableView" /\ results[last.h].policy = "Never"
     /\ attached
     /\ ReadPosition >= 0 /\ ReadPosition < Len(results[last.h].tv.rows)) =>
        LET id == results[last.h].tv.rows[ReadPosition + 1]
        IN /\ last.res.kind = "ok"
           /\ last.res.a = IF id \in SeqElems(table) THEN id ELSE Detached

\* C27 witness: last() of a frozen collection of two rows has answered the
\* detached placeholder for a deleted row
C27_Witness ==
    /\ last.op = "last" /\ last.res.kind = "ok" /\ last.res.a = Detached
    /\ results[last.h].mode = "TableView" /\ results[last.h].policy = "Never"
    /\ Len(results[last.h].tv.rows) = 2

\* ---- Properties of the collection's queries and order -------------------------
\* C28: is_in_table_order() answers true in Empty and Table mode, false in
\* LinkView mode, in Query mode true exactly when the query is not restricted
\* to a link list and no sort is set, in TableView mode the flag of the view;
\* it changes nothing
C28_TableOrder ==
    [][(last = Idle /\ last'.op = "is_in_table_order") =>
         LET r == results[last'.h]
         IN /\ results' = results /\ notif' = notif
            /\ r.mode \in {"Empty", "Table"} => last'.res = Bool(TRUE)
            /\ r.mode = "LinkView" => last'.res = Bool(FALSE)
            /\ r.mode = "Query" =>
                   last'.res = Bool(r.query.src = "table" /\ ~r.sort)
            /\ r.mode = "TableView" => last'.res = Bool(tv_is_in_table_order(r.tv))]_vars

\* C28 witness: a sorted query over the table has answered false
C28_Witness ==
    /\ last.op = "is_in_table_order" /\ last.res = Bool(FALSE)
    /\ results[last.h].mode = "Query" /\ results[last.h].sort
    /\ results[last.h].query.src = "table"

\* C29: on a collection that is not in Empty mode, the query returned by
\* get_query() matches exactly the rows of the collection, and as many as
\* size() reports
C29_QueryMatchesMembers ==
    (/\ last.op = "get_query" /\ last.res.kind = "ok"
     /\ results[last.h].mode # "Empty") =>
        LET r == results[last.h]
            q == get_query(r)
        IN /\ SeqElems(find_all(q)) = SeqElems(read_rows(prepare_read(r)))
           /\ count(q) = size_res(r)

\* ---- Properties of index_of(Row) ------------------------------------------------
\* the last call was index_of on a row handle that is detached
DetachedArg(row) == row = Detached \/ (row \in Ids /\ row \notin SeqElems(table))

\* C30 as claimed: on a valid collection in any mode, index_of raises
\* DetachedAccessor for a detached row and IncorrectTable for an attached row
\* of another table, and leaves the collection as it was
C30_IndexOfRowRaises ==
    [][(/\ last = Idle /\ last'.op = "index_of_row"
        /\ is_valid(results[last'.h])
        /\ DetachedArg(last'.arg) \/ last'.arg = Foreign) =>
           /\ results' = results /\ notif' = notif
           /\ last'.res.kind = IF DetachedArg(last'.arg) THEN "DetachedAccessor"
                                ELSE "IncorrectTable"]_vars

\* C30: the same, except that an Empty-mode collection, which has no table,
\* answers not-found for an attached row of any table
C30_IndexOfRowRaisesWithTable ==
    [][(/\ last = Idle /\ last'.op = "index_of_row"
        /\ is_valid(results[last'.h])
        /\ DetachedArg(last'.arg) \/ last'.arg = Foreign) =>
           /\ results' = results /\ notif' = notif
           /\ last'.res = IF DetachedArg(last'.arg) THEN Res("DetachedAccessor", 0, 0)
                           ELSE IF results[last'.h].mode = "Empty" THEN Ok(NotFound)
                           ELSE Res("IncorrectTable", 0, 0)]_vars

\* C30 witness: index_of has refused a row of another table on a collection
\* over a link list
C30_Witness ==
    /\ last.op = "index_of_row" /\ last.arg = Foreign
    /\ last.res.kind = "IncorrectTable"
    /\ results[last.h].mode = "LinkView"

\* ---- Properties of the notifier registration ------------------------------------
\* a step in which collection h registers a notifier with the coordinator
Registers(h) == results'[h].regs > results[h].regs

\* C31 as claimed: no notifier is registered while a write transaction is in
\* progress or while notifications cannot be delivered
C31_RegistersOnlyDeliverable ==
    [][\A h \in Handles : Registers(h) => (~inTx /\ canDeliver)]_vars

\* C31: no notifier is registered while a write transaction is in progress;
\* a read registers only on a collection without a notifier that it leaves
\* materialized, and only when notifications can be delivered; an explicit
\* registration in a write transaction is refused with InvalidTransaction
C31_RegistersOutsideWrite ==
    [][\A h \in Handles :
         /\ Registers(h) =>
               /\ ~inTx /\ ~results[h].notifier /\ last'.h = h
               /\ last'.op # "add_notification_callback" =>
                      (canDeliver /\ results'[h].mode = "TableView"
                       /\ last'.op \notin {"snapshot", "snapshot_copy"})
         /\ (/\ last = Idle /\ last'.op = "add_notification_callback" /\ last'.h = h
             /\ inTx /\ results[h].realm /\ ~results[h].notifier) =>
               (last'.res = InvalidTransaction /\ results' = results)]_vars

\* C31 witness: an explicit registration has been refused in a write
\* transaction
C31_Witness ==
    /\ last.op = "add_notification_callback" /\ inTx /\ ~readOnly
    /\ last.res = InvalidTransaction
    /\ ~results[last.h].notifier

\* the reads of C32, called on the owning thread
PlainReads ==
    {"size", "get", "first", "last", "index_of_row", "index_of_value", "get_tableview"}
    \cup AggNames \cup {TypedOp(name) : name \in AggNames}

\* C32 as claimed: where add_notification_callback is never called, no read
\* registers a notifier
C32_ReadsNeverRegister ==
    [][\A h \in Handles :
         (last = Idle /\ last'.op \in PlainReads) => ~Registers(h)]_vars

\* C32: where add_notification_callback is never called, a read registers a
\* notifier only on an Auto collection without one that it leaves
\* materialized, outside a write transaction and while notifications can be
\* delivered; a read that leaves the collection in another mode, or a read of
\* a frozen collection, registers none
C32_ReadsRegisterLazily ==
    [][\A h \in Handles :
         (last = Idle /\ last'.op \in PlainReads /\ Registers(h)) =>
            /\ ~inTx /\ canDeliver
            /\ ~results[h].notifier /\ results[h].policy = "Auto"
            /\ results'[h].mode = "TableView" /\ results'[h].used]_vars

\* C32 witness: get() has materialized a query and registered the first
\* notifier of the collection
C32_Witness ==
    /\ last.op = "get" /\ last.res.kind = "ok"
    /\ results[last.h].mode = "TableView" /\ results[last.h].policy = "Auto"
    /\ results[last.h].notifier /\ results[last.h].regs = 1

\* ---- Properties of materialization ------------------------------------------------
\* how often the row id occurs in the sequence s
Occurrences(s, id) == Cardinality({k \in DOMAIN s : s[k] = id})

\* the sequence rows is the query result found in order, sorted when s is set
\* and then made distinct when d is set: without a descriptor it is found
\* itself; sorted, it holds the same rows in the descriptor's order; distinct,
\* it holds for each value only the row that comes first, after the sort
MaterializedFrom(rows, found, s, d) ==
    /\ (~s /\ ~d) => rows = found
    /\ ~d => \A id \in AllIds : Occurrences(rows, id) = Occurrences(found, id)
    /\ s => \A i \in DOMAIN rows, j \in DOMAIN rows :
                i < j => ~SortsBefore(rows[j], rows[i])
    /\ d => /\ \A i \in DOMAIN rows, j \in DOMAIN rows :
                   i # j => RowVal(rows[i]) # RowVal(rows[j])
            /\ {RowVal(id) : id \in SeqElems(rows)} = {RowVal(id) : id \in SeqElems(found)}
            /\ \A i \in DOMAIN rows :
                   /\ rows[i] \in SeqElems(found)
                   /\ IF s
                      THEN \A id \in SeqElems(found) :
                              RowVal(id) = RowVal(rows[i]) => ~SortsBefore(id, rows[i])
                      ELSE \E p \in DOMAIN found :
                              /\ found[p] = rows[i]
                              /\ \A k \in 1..(p - 1) : RowVal(found[k]) # RowVal(rows[i])
            /\ ~s => \A i \in DOMAIN rows, j \in DOMAIN rows :
                        i < j => \E p \in DOMAIN found, k \in DOMAIN found :
                                    p < k /\ found[p] = rows[i] /\ found[k] = rows[j]

\* C33: a read that takes an Auto collection from Query to TableView mode
\* leaves it with the view of its query, sorted and then made distinct as its
\* descriptors say, and marked as used; update_tableview changes nothing in
\* Empty, Table and LinkView mode, so reads of Empty and Table collections
\* leave them as they are
C33_Materialization ==
    [][\A h \in Handles :
         /\ (/\ last = Idle /\ last'.op \in PlainReads \cup {"distinct"} /\ last'.h = h
             /\ results[h].mode = "Query" /\ results[h].policy = "Auto"
             /\ results'[h].mode # "Query") =>
               /\ results'[h].mode = "TableView"
               /\ results'[h].used
               /\ results'[h].tv.q = results[h].query
               /\ MaterializedFrom(results'[h].tv.rows, find_all(results[h].query),
                                   results[h].sort, results[h].distinct)
         /\ results[h].mode \in {"Empty", "Table", "LinkView"} =>
               /\ update_tableview(results[h], TRUE) = results[h]
               /\ update_tableview(results[h], FALSE) = results[h]
         /\ (/\ last = Idle /\ last'.op \in PlainReads /\ last'.h = h
             /\ results[h].mode \in {"Empty", "Table"}) => results'[h] = results[h]]_vars

\* C33 witness: a read has materialized a sorted, distinct query over two
\* rows of equal value and kept the one that sorts first, not the one that
\* comes first in the table
C33_Witness ==
    /\ last.op = "get" /\ last.res.kind = "ok"
    /\ results[last.h].mode = "TableView" /\ results[last.h].policy = "Auto"
    /\ results[last.h].sort /\ results[last.h].distinct
    /\ results[last.h].used
    /\ table = <<2, 3>> /\ results[last.h].tv.rows = <<3>>

\* ---- Properties of reads of a link list ------------------------------------------
\* the last call, an indexed read, has been answered from the sequence rows
AnsweredFrom(rows) ==
    CASE last'.op = "get" ->
           IF last'.arg < Len(rows)
           THEN last'.res.kind = "ok" /\ last'.res.a = rows[last'.arg + 1]
           ELSE last'.res = Res("OutOfBounds", last'.arg, Len(rows))
      [] last'.op = "first" ->
           IF rows = <<>> THEN last'.res = None
           ELSE last'.res.kind = "ok" /\ last'.res.a = rows[1]
      [] last'.op = "last" ->
           IF rows = <<>> THEN last'.res = None
           ELSE last'.res.kind = "ok" /\ last'.res.a = rows[Len(rows)]
      [] last'.op = "index_of_row" ->
           IF last'.arg \in SeqElems(rows)
           THEN /\ last'.res.kind = "ok"
                /\ rows[last'.res.a + 1] = last'.arg
                /\ \A k \in 1..last'.res.a : rows[k] # last'.arg
           ELSE last'.res = Ok(NotFound)
      [] OTHER -> last'.res = Ok(Len(rows))

AggregateOf(name, rows) ==
    CASE name \in {"max", "max_t"} -> IF rows = <<>> THEN None ELSE Ok(MaxVal(rows))
      [] name \in {"min", "min_t"} -> IF rows = <<>> THEN None ELSE Ok(MinVal(rows))
      [] name \in {"sum", "sum_t"} -> Ok(SumVals(rows))
      [] OTHER -> IF rows = <<>> THEN None ELSE Res("ok", SumVals(rows), Len(rows))

\* the last call, an aggregate of column 0 on the LinkView collection h, has
\* made h a query over its link list, evaluated it and answered from the view
AggregatedLinks(h) ==
    /\ results'[h].mode = "TableView"
    /\ results'[h].query = [src |-> "links", pred |-> "all"]
    /\ results'[h].tv.q = [src |-> "links", pred |-> "all"]
    /\ MaterializedFrom(results'[h].tv.rows, links, results[h].sort, results[h].distinct)
    /\ last'.res = AggregateOf(last'.op, Qualifying(results'[h].tv.rows))

\* C35: max, min, sum and average of column 0, as Mixed or typed, on a valid
\* LinkView collection turn it into a query over its link list, evaluate it,
\* answer the aggregate of exactly the linked rows and leave the collection
\* in TableView mode
C35_LinkViewAggregates ==
    [][\A h \in Handles :
         (/\ last = Idle /\ last'.h = h /\ last'.arg = 0
          /\ last'.op \in AggNames \cup {TypedOp(name) : name \in AggNames}
          /\ results[h].mode = "LinkView" /\ is_valid(results[h])) =>
            AggregatedLinks(h)]_vars

\* ---- Properties of the adoption of delivered views ----------------------------
\* C36: whatever snapshot() calls come between deliveries, a view is only
\* ever delivered to a collection that is not frozen and holds its notifier,
\* and the delivery replaces the view by the notifier's, leaves the collection
\* in TableView mode, not frozen, and clears the used flag
C36_AdoptionNeverFrozen ==
    [][\A h \in Handles :
         (Delivery /\ last'.h = h) =>
            /\ ~Frozen(results[h]) /\ results[h].notifier
            /\ results'[h].tv = NotifierView(results[h])
            /\ results'[h].mode = "TableView"
            /\ ~results'[h].used
            /\ ~Frozen(results'[h]) /\ results'[h].notifier]_vars

\* C36 witness: snapshot() has frozen a collection in place to which views
\* had been delivered, the last of them replacing a view that was never
\* read; it holds no notifier any more
C36_Witness ==
    /\ last.op = "snapshot" /\ last.res.kind = "ok"
    /\ Frozen(results[last.h]) /\ ~results[last.h].notifier
    /\ ~results[last.h].wants
    /\ ~inTx /\ attached /\ Len(table) > 0

\* ---- Properties of wants_background_updates ------------------------------------
\* a delivery to h replaces a view that has not been read since it was adopted
ReplacesUnread(h) ==
    Delivery /\ last'.h = h /\ results[h].mode = "TableView" /\ ~results[h].used

\* the user reads the collection h, which is valid and not frozen
UserReads(h) ==
    /\ last = Idle /\ last'.h = h /\ last'.op \in PlainReads \ {"index_of_row"}
    /\ is_valid(results[h]) /\ ~Frozen(results[h])
    /\ results[h].mode = "TableView"

\* C37: a delivery that replaces a view that was never read makes
\* wants_background_updates() false, and the next read of the collection
\* makes it true again
C37_WantsAgainAfterRead ==
    [][\A h \in Handles :
         /\ ReplacesUnread(h) => ~results'[h].wants
         /\ (UserReads(h) /\ ~results[h].wants) => results'[h].wants]_vars

\* ---- Properties of aggregates that raise ---------------------------------------
\* the last call, on collection h, was an aggregate that raised
\* OutOfBoundsIndexException or UnsupportedColumnTypeException
AggregateRaised(h) ==
    /\ last = Idle /\ last'.h = h /\ last'.op \in AggNames
    /\ last'.res.kind \in {"OutOfBounds", "UnsupportedColumnType"}

\* C38: an aggregate that raises OutOfBounds or UnsupportedColumnType leaves
\* the mode, the view and the notifier registration of the collection as
\* they were, in every mode and for every column, sum and average over the
\* timestamp column included
C38_RaisingAggregateKeepsState ==
    [][\A h \in Handles :
         AggregateRaised(h) =>
            /\ results'[h].mode = results[h].mode
            /\ results'[h].tv = results[h].tv
            /\ results'[h].notifier = results[h].notifier
            /\ results'[h].regs = results[h].regs]_vars

\* ---- Properties of refused registrations ---------------------------------------
\* the last call was a registration on collection h
Registration(h) ==
    last = Idle /\ last'.op = "add_notification_callback" /\ last'.h = h

\* C39: a registration refused because the Realm is read-only, a write
\* transaction is open or the collection is frozen leaves the collection as
\* it was, without notifier and with its wants flag as before; a
\* registration on a collection that has a notifier returns normally
\* whatever those conditions are and leaves the collection as it was
C39_RefusalKeepsState ==
    [][\A h \in Handles :
         (Registration(h) /\ results[h].realm) =>
            /\ (~results[h].notifier /\ (readOnly \/ inTx \/ Frozen(results[h]))) =>
                   /\ last'.res.kind \in {"InvalidTransaction", "LogicError"}
                   /\ results'[h] = results[h]
                   /\ ~results'[h].notifier /\ results'[h].regs = 0
            /\ results[h].notifier =>
                   /\ last'.res.kind = "ok"
                   /\ results'[h] = results[h]]_vars

\* C39 witness: a registration has been refused on a frozen collection that
\* did not want background updates, and it still does not
C39_Witness ==
    /\ last.op = "add_notification_callback"
    /\ last.res.kind \in {"InvalidTransaction", "LogicError"}
    /\ Frozen(results[last.h]) /\ ~results[last.h].wants
    /\ ~results[last.h].notifier

\* ---- Properties of snapshot() on an lvalue (SpecS) ------------------------------
\* the rows a collection that is not frozen holds now
LiveSize(r) ==
    CASE r.mode = "Empty" -> 0
      [] r.mode = "Table" -> Len(table)
      [] r.mode = "LinkView" -> Len(links)
      [] r.mode = "Query" -> Len(Materialize(r.query, r.sort, r.distinct))
      [] OTHER -> Len(LiveRows(r))

\* C40: snapshot() on an lvalue leaves the receiver as it was, with its mode,
\* its Auto policy and its notifier registration, and returns a frozen copy
\* without notifier that holds the receiver's rows; size() on the receiver
\* goes on answering the number of rows that match now, size() on the copy
\* the number of rows it was taken with
C40_SnapshotCopyLeavesReceiver ==
    [][\A h \in Handles :
         /\ (last = Idle /\ last'.op = "snapshot_copy" /\ last'.h = h
              /\ last'.res.kind = "ok") =>
                /\ results'[h] = results[h]
                /\ Len(snap'[h].tv.rows) = size_res(results[h])
                /\ results[h].mode # "Empty" =>
                       /\ Frozen(snap'[h]) /\ snap'[h].mode = "TableView"
                       /\ ~snap'[h].notifier
         /\ (last = Idle /\ last'.op = "size" /\ last'.h = h
              /\ last'.res.kind = "ok" /\ ~Frozen(results[h])) =>
                last'.res.a = LiveSize(results[h])
         /\ snap[h] # NoSnapshot =>
                /\ snap'[h].tv.rows = snap[h].tv.rows
                /\ snap'[h].policy = snap[h].policy
         /\ (last = Idle /\ last'.op = "size_snapshot" /\ last'.h = h
              /\ last'.res.kind = "ok") =>
                last'.res.a = Len(snap[h].tv.rows)]_vars

\* C40 witness: after a commit, size() on the copy has answered a number that
\* size() on the receiver, still Auto and registered, no longer answers
C40_Witness ==
    /\ last.op = "size_snapshot" /\ last.res.kind = "ok"
    /\ ~inTx /\ attached
    /\ ~Frozen(results[last.h]) /\ results[last.h].notifier
    /\ results[last.h].mode = "TableView"
    /\ last.res.a # size_res(results[last.h])

====
